---------------------------- MODULE Spec2Model ----------------------------
(***************************************************************************)
(* A model of systemstat's FreeBSD platform layer                          *)
(* (src/systemstat/src/platform/freebsd.rs).                               *)
(*                                                                         *)
(* The program state is the process-wide cache of resolved sysctl handles  *)
(* (the lazy_static block), the DelayedMeasurement most recently handed    *)
(* out by cpu_load(), and the value returned by the last Platform call.    *)
(* Everything the kernel answers is an input of the action that asks.      *)
(***************************************************************************)
EXTENDS Integers, Sequences, FiniteSets, TLC

(***************************************************************************)
(* Bounds of the model.                                                    *)
(***************************************************************************)
\* usize/u64/i64 are modelled WordBits wide (TLC's integers are 32 bit wide).
WordBits == 8
\* getmntinfo() reports at most MaxMounts records.
MaxMounts == 2
\* Each kernel tick counter reads 0..MaxTick.
MaxTick == 1
\* The kernel reports 1..MaxCpus per-CPU records.
MaxCpus == 1
\* A DelayedMeasurement is invoked at most MaxInvocations times.
MaxInvocations == 2
\* A page counter reads 0..MaxPages.
MaxPages == 1

(***************************************************************************)
(* The counter names of the lazy_static block.                             *)
(***************************************************************************)
KERN_CP_TIMES    == "kern.cp_times"
KERN_BOOTTIME    == "kern.boottime"
V_ACTIVE_COUNT   == "vm.stats.vm.v_active_count"
V_INACTIVE_COUNT == "vm.stats.vm.v_inactive_count"
V_WIRE_COUNT     == "vm.stats.vm.v_wire_count"
V_CACHE_COUNT    == "vm.stats.vm.v_cache_count"
V_FREE_COUNT     == "vm.stats.vm.v_free_count"
ZFS_ARC_SIZE     == "kstat.zfs.misc.arcstats.size"
BATTERY_LIFE     == "hw.acpi.battery.life"
BATTERY_TIME     == "hw.acpi.battery.time"
ACLINE           == "hw.acpi.acline"

Names ==
    { KERN_CP_TIMES, KERN_BOOTTIME, V_ACTIVE_COUNT, V_INACTIVE_COUNT,
      V_WIRE_COUNT, V_CACHE_COUNT, V_FREE_COUNT, ZFS_ARC_SIZE,
      BATTERY_LIFE, BATTERY_TIME, ACLINE }

\* A lazy static that was never dereferenced.
Unset   == "unset"
\* The array sysctl_mib! starts from: [0; len].
ZeroMib == "zero"
\* The array the kernel fills in for a name it knows.
OidMib  == "oid"

(***************************************************************************)
(* Fixed-width arithmetic.                                                 *)
(***************************************************************************)
Modulus     == 2 ^ WordBits
MaxUnsigned == Modulus - 1
MinSigned   == -(Modulus \div 2)
MaxSigned   == (Modulus \div 2) - 1

\* `x as usize` / `x as u64`: the two's complement reinterpretation.
as_usize(x) == x % Modulus

\* usize::saturating_sub
saturating_sub(a, b) == IF a >= b THEN a - b ELSE 0

(***************************************************************************)
(* sysctl_mib!: the array starts as zeros, the kernel fills it in when it  *)
(* knows the name, and the return code of sysctlnametomib is dropped.      *)
(***************************************************************************)
sysctl_mib(rc) ==
    LET mib == ZeroMib
    IN  IF rc = 0 THEN OidMib ELSE mib

(***************************************************************************)
(* sysctl!: the macro returns Err from the enclosing function when the     *)
(* call fails and $shouldcheck holds; otherwise execution goes on with the *)
(* buffer as the kernel left it.                                           *)
(***************************************************************************)
sysctl_returns_err(rc, shouldcheck) == rc /= 0 /\ shouldcheck

\* The buffer after the call: written on success, untouched on failure.
sysctl_buffer(rc, kernelValue, buf) == IF rc = 0 THEN kernelValue ELSE buf


(***************************************************************************)
(* State.                                                                  *)
(***************************************************************************)
VARIABLES
    mibs,       \* lazy_static: name -> Unset, or the cached handle
    once,       \* lazy_static: name -> state of the static's Once
    cpSize,     \* lazy_static CP_TIMES_SIZE: <<>> while unset, else <<bytes>>
    dm,         \* the DelayedMeasurement of the last cpu_load(): <<>> or <<loads>>
    ret,        \* what the last Platform call returned
    resolves,   \* history: name -> number of sysctlnametomib calls made for it
    unknown,    \* history: the names for which sysctlnametomib failed
    queried,    \* history: the names whose cached handle was passed to sysctl
    invoked,    \* history: invocations of the current DelayedMeasurement
    pc,         \* thread -> where the thread is inside a Platform call
    todo,       \* thread -> the statics the thread's call still has to use
    seen        \* thread -> the handle the thread's last dereference gave it

vars == <<mibs, once, cpSize, dm, ret, resolves, unknown, queried, invoked,
          pc, todo, seen>>

cacheVars  == <<mibs, once, resolves, unknown, queried>>
threadVars == <<pc, todo, seen>>

Threads == {"t1", "t2"}

\* The value of an io::Result, with the call and the kernel's answers it came from.
Ok(v)  == [kind |-> "Ok", val |-> v]
Err(m) == [kind |-> "Err", val |-> m]
Returned(op, r, raw) == [op |-> op, kind |-> r.kind, val |-> r.val, raw |-> raw]

SysctlFailed   == "sysctl() failed"
NotSupported   == "Not supported"
GetmntFailed   == "getmntinfo() failed"
StatfsFailed   == "statfs() failed"

(***************************************************************************)
(* What the kernel can answer when name n is resolved (if not yet cached)  *)
(* and then queried: it does not know the name (sysctlnametomib fails, and *)
(* the query through the all-zero handle fails too), it knows the name but *)
(* the query fails, or the query succeeds with a value of Vals.  A handle  *)
(* that is already cached fixes whether the name is known.                 *)
(***************************************************************************)
Answers(m, n, Vals, zero) ==
    LET noName == [issued |-> TRUE, known |-> FALSE, rc |-> -1, v |-> zero]
        failed == [issued |-> TRUE, known |-> TRUE, rc |-> -1, v |-> zero]
        values == {[issued |-> TRUE, known |-> TRUE, rc |-> 0, v |-> x] : x \in Vals}
    IN  CASE m[n] = Unset   -> {noName, failed} \cup values
          [] m[n] = ZeroMib -> {noName}
          [] OTHER          -> {failed} \cup values

\* A query the call returned before making.
NotIssued(zero) == [issued |-> FALSE, known |-> TRUE, rc |-> 0, v |-> zero]

\* Dereferencing the lazy static of name n, by one thread alone: the first
\* dereference runs sysctl_mib! and caches its result, later ones read the cache.
LazyMib(m, n, a) ==
    IF m[n] = Unset
    THEN [m EXCEPT ![n] = sysctl_mib(IF a.known THEN 0 ELSE -1)]
    ELSE m

\* The cache after a call that left the handles m2 and queried the names Q.
Cache(m2, Q) ==
    /\ mibs' = m2
    /\ once' = [n \in Names |-> IF m2[n] # Unset THEN "COMPLETE" ELSE once[n]]
    /\ resolves' = [n \in Names |->
                      IF mibs[n] = Unset /\ m2[n] # Unset
                      THEN resolves[n] + 1 ELSE resolves[n]]
    /\ unknown' = unknown \cup {n \in Names : mibs[n] = Unset /\ m2[n] = ZeroMib}
    /\ queried' = queried \cup Q

Init ==
    /\ mibs = [n \in Names |-> Unset]
    /\ once = [n \in Names |-> "INCOMPLETE"]
    /\ cpSize = <<>>
    /\ dm = <<>>
    /\ ret = [op |-> "none", kind |-> "none", val |-> 0, raw |-> 0]
    /\ resolves = [n \in Names |-> 0]
    /\ unknown = {}
    /\ queried = {}
    /\ invoked = 0
    /\ pc = [t \in Threads |-> "idle"]
    /\ todo = [t \in Threads |-> <<>>]
    /\ seen = [t \in Threads |-> Unset]

(***************************************************************************)
(* block_device_statistics, network_stats, socket_stats.                   *)
(***************************************************************************)
Interfaces == {"em0", "lo0"}

block_device_statistics_ret == Err(NotSupported)

\* The loopback interface is answered with (empty) counters.
network_stats_ret_loopback(interface) ==
    IF interface = "lo0" THEN Ok([rx_bytes |-> 0, tx_bytes |-> 0])
    ELSE Err(NotSupported)

network_stats_ret(interface) == Err(NotSupported)

socket_stats_ret == Err(NotSupported)

block_device_statistics ==
    /\ ret' = Returned("block_device_statistics", block_device_statistics_ret, 0)
    /\ UNCHANGED <<cacheVars, cpSize, dm, invoked, threadVars>>

network_stats ==
    \E interface \in Interfaces :
        /\ ret' = Returned("network_stats", network_stats_ret(interface), interface)
        /\ UNCHANGED <<cacheVars, cpSize, dm, invoked, threadVars>>

socket_stats ==
    /\ ret' = Returned("socket_stats", socket_stats_ret, 0)
    /\ UNCHANGED <<cacheVars, cpSize, dm, invoked, threadVars>>

(***************************************************************************)
(* on_ac_power                                                             *)
(***************************************************************************)
AcReadings == 0 .. 3

\* Any non-zero reading counts as "on".
on_ac_power_ret_nonzero(rc, v) ==
    LET on == sysctl_buffer(rc, v, 0)
    IN  IF sysctl_returns_err(rc, TRUE) THEN Err(SysctlFailed) ELSE Ok(on /= 0)

on_ac_power_ret(rc, v) ==
    LET on == sysctl_buffer(rc, v, 0)
    IN  IF sysctl_returns_err(rc, TRUE) THEN Err(SysctlFailed) ELSE Ok(on = 1)

on_ac_power ==
    \E a \in Answers(mibs, ACLINE, AcReadings, 0) :
        /\ Cache(LazyMib(mibs, ACLINE, a), {ACLINE})
        /\ ret' = Returned("on_ac_power", on_ac_power_ret(a.rc, a.v), a)
        /\ UNCHANGED <<cpSize, dm, invoked, threadVars>>

(***************************************************************************)
(* battery_life: remaining_capacity is life as f32 / 100.0, kept here as   *)
(* the fraction num/den; remaining_time is in seconds.                     *)
(***************************************************************************)
LifeReadings == {0, 50, 100, 150}
TimeReadings == {-1, 0, 3600}

battery_life_ret(rc1, v1, rc2, v2) ==
    LET life == sysctl_buffer(rc1, v1, 0)
        time == sysctl_buffer(rc2, v2, 0)
    IN  IF sysctl_returns_err(rc1, TRUE) THEN Err(SysctlFailed)
        ELSE IF sysctl_returns_err(rc2, TRUE) THEN Err(SysctlFailed)
        ELSE Ok([remaining_capacity |-> [num |-> life, den |-> 100],
                 remaining_time |-> IF time < 0 THEN 0 ELSE time])

battery_life ==
    \E a1 \in Answers(mibs, BATTERY_LIFE, LifeReadings, 0) :
        LET m1 == LazyMib(mibs, BATTERY_LIFE, a1)
        IN  IF sysctl_returns_err(a1.rc, TRUE)
            THEN /\ Cache(m1, {BATTERY_LIFE})
                 /\ ret' = Returned("battery_life",
                                    battery_life_ret(a1.rc, a1.v, 0, 0),
                                    [life |-> a1, time |-> NotIssued(0)])
                 /\ UNCHANGED <<cpSize, dm, invoked, threadVars>>
            ELSE \E a2 \in Answers(m1, BATTERY_TIME, TimeReadings, 0) :
                 /\ Cache(LazyMib(m1, BATTERY_TIME, a2), {BATTERY_LIFE, BATTERY_TIME})
                 /\ ret' = Returned("battery_life",
                                    battery_life_ret(a1.rc, a1.v, a2.rc, a2.v),
                                    [life |-> a1, time |-> a2])
                 /\ UNCHANGED <<cpSize, dm, invoked, threadVars>>

(***************************************************************************)
(* boot_time: the DateTime<Utc> is kept as seconds and nanoseconds since   *)
(* the Unix epoch.                                                         *)
(***************************************************************************)
ZeroTimeval == [tv_sec |-> 0, tv_usec |-> 0]

TimevalReadings ==
    {[tv_sec |-> s, tv_usec |-> u] : s \in {0, 1, 1700000000}, u \in {0, 1, 500000, 999999}}

\* chrono's NaiveDateTime::from_timestamp(secs, nsecs): the instant secs seconds
\* and nsecs nanoseconds after the epoch.
from_timestamp(secs, nsecs) == [secs |-> secs, nsecs |-> nsecs]

\* tv_usec `as u32` leaves the readings, all within 0 .. 999999, as they are.
boot_time_ret(rc, tv) ==
    LET data == sysctl_buffer(rc, tv, ZeroTimeval)
    IN  IF sysctl_returns_err(rc, TRUE) THEN Err(SysctlFailed)
        ELSE Ok(from_timestamp(data.tv_sec, data.tv_usec))

boot_time ==
    \E a \in Answers(mibs, KERN_BOOTTIME, TimevalReadings, ZeroTimeval) :
        /\ Cache(LazyMib(mibs, KERN_BOOTTIME, a), {KERN_BOOTTIME})
        /\ ret' = Returned("boot_time", boot_time_ret(a.rc, a.v), a)
        /\ UNCHANGED <<cpSize, dm, invoked, threadVars>>

(***************************************************************************)
(* memory.  ByteSize values are kept as byte counts.                       *)
(***************************************************************************)
\* bsd::PAGESHIFT: log2(page size) - 10, for 4 KiB pages.
PAGESHIFT == 2

PageReadings == 0 .. MaxPages
\* The ARC size in bytes: nothing, less than one wired page, more than one.
ArcReadings == {0, 2048, 8192}

ByteSize_b(x)   == x
ByteSize_kib(x) == x * 1024
shl(x, k)       == x * (2 ^ k)

\* common::saturating_sub_bytes
saturating_sub_bytes(l, r) == ByteSize_b(saturating_sub(l, r))

\* io::Result::unwrap_or
unwrap_or(r, d) == IF r.kind = "Ok" THEN r.val ELSE d

zfs_arc_size_ret(rc, v) ==
    LET zfs_arc == sysctl_buffer(rc, v, 0)
    IN  IF sysctl_returns_err(rc, TRUE) THEN Err(SysctlFailed) ELSE Ok(zfs_arc)

\* The three-argument form of sysctl!, which checks.
cache_shouldcheck_default == TRUE

\* Whether the query of the cache page counter is checked.
cache_shouldcheck == FALSE

\* The arguments are the kernel's answers (rc, v) to the six queries, in the
\* order memory() makes them.
memory_ret(a, i, w, c, f, z) ==
    LET active   == sysctl_buffer(a.rc, a.v, 0)
        inactive == sysctl_buffer(i.rc, i.v, 0)
        wired    == sysctl_buffer(w.rc, w.v, 0)
        cache    == sysctl_buffer(c.rc, c.v, 0)
        free     == sysctl_buffer(f.rc, f.v, 0)
        arc      == ByteSize_b(unwrap_or(zfs_arc_size_ret(z.rc, z.v), 0))
        pmem     == [active   |-> ByteSize_kib(shl(active, PAGESHIFT)),
                     inactive |-> ByteSize_kib(shl(inactive, PAGESHIFT)),
                     wired    |-> saturating_sub_bytes(
                                      ByteSize_kib(shl(wired, PAGESHIFT)), arc),
                     cache    |-> ByteSize_kib(shl(cache, PAGESHIFT)),
                     zfs_arc  |-> arc,
                     free     |-> ByteSize_kib(shl(free, PAGESHIFT))]
    IN  IF sysctl_returns_err(a.rc, TRUE) THEN Err(SysctlFailed)
        ELSE IF sysctl_returns_err(i.rc, TRUE) THEN Err(SysctlFailed)
        ELSE IF sysctl_returns_err(w.rc, TRUE) THEN Err(SysctlFailed)
        ELSE IF sysctl_returns_err(c.rc, cache_shouldcheck) THEN Err(SysctlFailed)
        ELSE IF sysctl_returns_err(f.rc, TRUE) THEN Err(SysctlFailed)
        ELSE Ok([total |-> pmem.active + pmem.inactive + pmem.wired
                           + pmem.cache + arc + pmem.free,
                 free  |-> pmem.inactive + pmem.cache + arc + pmem.free,
                 platform_memory |-> pmem])

\* memory() returning after the queries of the names Q, with the handles m.
memory_return(m, Q, a, i, w, c, f, z) ==
    /\ Cache(m, Q)
    /\ ret' = Returned("memory", memory_ret(a, i, w, c, f, z),
                       [active |-> a, inactive |-> i, wired |-> w,
                        cache |-> c, free |-> f, arc |-> z])
    /\ UNCHANGED <<cpSize, dm, invoked, threadVars>>

memory ==
    LET no == NotIssued(0)
    IN
    \E a \in Answers(mibs, V_ACTIVE_COUNT, PageReadings, 0) :
    LET m1 == LazyMib(mibs, V_ACTIVE_COUNT, a)
        Q1 == {V_ACTIVE_COUNT}
    IN
    IF sysctl_returns_err(a.rc, TRUE)
    THEN memory_return(m1, Q1, a, no, no, no, no, no)
    ELSE
    \E i \in Answers(m1, V_INACTIVE_COUNT, PageReadings, 0) :
    LET m2 == LazyMib(m1, V_INACTIVE_COUNT, i)
        Q2 == Q1 \cup {V_INACTIVE_COUNT}
    IN
    IF sysctl_returns_err(i.rc, TRUE)
    THEN memory_return(m2, Q2, a, i, no, no, no, no)
    ELSE
    \E w \in Answers(m2, V_WIRE_COUNT, PageReadings, 0) :
    LET m3 == LazyMib(m2, V_WIRE_COUNT, w)
        Q3 == Q2 \cup {V_WIRE_COUNT}
    IN
    IF sysctl_returns_err(w.rc, TRUE)
    THEN memory_return(m3, Q3, a, i, w, no, no, no)
    ELSE
    \E c \in Answers(m3, V_CACHE_COUNT, PageReadings, 0) :
    LET m4 == LazyMib(m3, V_CACHE_COUNT, c)
        Q4 == Q3 \cup {V_CACHE_COUNT}
    IN
    IF sysctl_returns_err(c.rc, cache_shouldcheck)
    THEN memory_return(m4, Q4, a, i, w, c, no, no)
    ELSE
    \E f \in Answers(m4, V_FREE_COUNT, PageReadings, 0) :
    LET m5 == LazyMib(m4, V_FREE_COUNT, f)
        Q5 == Q4 \cup {V_FREE_COUNT}
    IN
    IF sysctl_returns_err(f.rc, TRUE)
    THEN memory_return(m5, Q5, a, i, w, c, f, no)
    ELSE
    \E z \in Answers(m5, ZFS_ARC_SIZE, ArcReadings, 0) :
        memory_return(LazyMib(m5, ZFS_ARC_SIZE, z), Q5 \cup {ZFS_ARC_SIZE},
                      a, i, w, c, f, z)

(***************************************************************************)
(* statfs::to_fs, mounts, mount_at.                                        *)
(***************************************************************************)
\* The raw records the kernel hands out: f_files is a u64 and f_ffree an i64.
RawRecords ==
    {[f_bsize |-> 2, f_blocks |-> 3, f_bfree |-> 2, f_bavail |-> 1,
      f_files |-> n, f_ffree |-> k, f_namemax |-> 255] :
        n \in {0, 2, MaxUnsigned}, k \in {MinSigned, -1, 1, 3}}

ZeroStatfs ==
    [f_bsize |-> 0, f_blocks |-> 0, f_bfree |-> 0, f_bavail |-> 0,
     f_files |-> 0, f_ffree |-> 0, f_namemax |-> 0]

\* The inode count in use, by a subtraction that wraps.
to_fs_files_wrapping(f_files, f_ffree) ==
    (as_usize(f_files) - as_usize(f_ffree)) % Modulus

\* The inode count in use.
to_fs_files(f_files, f_ffree) ==
    saturating_sub(as_usize(f_files), as_usize(f_ffree))

to_fs(self) ==
    [files       |-> to_fs_files(self.f_files, self.f_ffree),
     files_total |-> as_usize(self.f_files),
     files_avail |-> as_usize(self.f_ffree),
     free        |-> ByteSize_b((self.f_bfree * self.f_bsize) % Modulus),
     avail       |-> ByteSize_b((as_usize(self.f_bavail) * self.f_bsize) % Modulus),
     total       |-> ByteSize_b((self.f_blocks * self.f_bsize) % Modulus),
     name_max    |-> self.f_namemax]

\* Only a negative count is taken for a failure.
mounts_ret_negative(len, mounts) ==
    IF len < 0 THEN Err(GetmntFailed)
    ELSE Ok([k \in 1 .. len |-> to_fs(mounts[k])])

\* len is what getmntinfo() returned, mounts the array it pointed mptr at.
mounts_ret(len, mounts) ==
    IF len < 1 THEN Err(GetmntFailed)
    ELSE Ok([k \in 1 .. len |-> to_fs(mounts[k])])

RECURSIVE SeqsOf(_, _)
\* The sequences of length n over S.
SeqsOf(S, n) ==
    IF n = 0 THEN {<<>>}
    ELSE {Append(q, x) : q \in SeqsOf(S, n - 1), x \in S}

mounts ==
    \E len \in -1 .. MaxMounts :
    \E recs \in SeqsOf(RawRecords, IF len < 0 THEN 0 ELSE len) :
        /\ ret' = Returned("mounts", mounts_ret(len, recs), [len |-> len, recs |-> recs])
        /\ UNCHANGED <<cacheVars, cpSize, dm, invoked, threadVars>>

Paths == {"/", "/missing"}

\* rc is what statfs() returned for the path bytes (passed without a
\* terminating NUL, so any path may fail or name any mount), rec what it wrote.
mount_at_ret(rc, rec) ==
    LET sfs == IF rc = 0 THEN rec ELSE ZeroStatfs
    IN  IF rc /= 0 THEN Err(StatfsFailed) ELSE Ok(to_fs(sfs))

mount_at ==
    \E path \in Paths, rc \in {0, -1} :
    \E rec \in IF rc = 0 THEN RawRecords ELSE {ZeroStatfs} :
        /\ ret' = Returned("mount_at", mount_at_ret(rc, rec),
                           [path |-> path, rc |-> rc, rec |-> rec])
        /\ UNCHANGED <<cacheVars, cpSize, dm, invoked, threadVars>>

(***************************************************************************)
(* measure_cpu, cpu_load and the DelayedMeasurement it returns.            *)
(***************************************************************************)
\* mem::size_of::<bsd::sysctl_cpu>(): five tick counters of eight bytes.
SizeofSysctlCpu == 40

\* One per-CPU record, as a CpuTime.
TickReadings ==
    {[user |-> u, nice |-> 0, system |-> 1, interrupt |-> 0, idle |-> i] :
        u \in 0 .. MaxTick, i \in 0 .. MaxTick}

\* The sizes the kernel reports for kern.cp_times.
SizeReadings == {n * SizeofSysctlCpu : n \in 1 .. MaxCpus}

NotBefore(now, prev) ==
    /\ now.user >= prev.user /\ now.nice >= prev.nice /\ now.system >= prev.system
    /\ now.interrupt >= prev.interrupt /\ now.idle >= prev.idle

\* The samples of cpus records the kernel can return after the sample atLeast
\* (<<>>: any): its tick counters never run backwards.
CpuSamples(cpus, atLeast) ==
    {s \in SeqsOf(TickReadings, cpus) :
        \A k \in 1 .. cpus : k <= Len(atLeast) => NotBefore(s[k], atLeast[k])}

\* CpuTime - CpuTime (data.rs): the per-field difference.
CpuTime_sub(now, prev) ==
    [user |-> now.user - prev.user, nice |-> now.nice - prev.nice,
     system |-> now.system - prev.system,
     interrupt |-> now.interrupt - prev.interrupt, idle |-> now.idle - prev.idle]

\* CpuTime::to_cpuload (data.rs): each field over the total, kept as the
\* numerators and the common denominator.
to_cpuload(t) ==
    [user |-> t.user, nice |-> t.nice, system |-> t.system,
     interrupt |-> t.interrupt, idle |-> t.idle,
     total |-> t.user + t.nice + t.system + t.interrupt + t.idle]

Panic(m) == [kind |-> "Panic", val |-> m]

\* measure_cpu() once *CP_TIMES_SIZE is read: cpus records are reserved, the
\* first is indexed, and the required query fills them.
measure_cpu_ret(size, rc, v) ==
    LET cpus == size \div SizeofSysctlCpu
        data == sysctl_buffer(rc, v, <<>>)
    IN  IF cpus = 0 THEN Panic("index out of bounds")
        ELSE IF sysctl_returns_err(rc, TRUE) THEN Err(SysctlFailed)
        ELSE Ok(data)

\* The initializer of CP_TIMES_SIZE: the size query's return code is dropped.
cp_times_size_init(rc, v) ==
    LET size == 0
    IN  sysctl_buffer(rc, v, size)

\* Every way one call of measure_cpu() can go from the handles m and the cached
\* size cs: the handles and size it leaves, whether it queried, and its result.
MeasureOutcomes(m, cs, atLeast) ==
    LET forced ==
            IF cs = <<>>
            THEN {[m |-> LazyMib(m, KERN_CP_TIMES, a),
                   cs |-> <<cp_times_size_init(a.rc, a.v)>>, size |-> a] :
                      a \in Answers(m, KERN_CP_TIMES, SizeReadings, 0)}
            ELSE {[m |-> m, cs |-> cs, size |-> NotIssued(0)]}
        After(x) ==
            IF x.cs[1] \div SizeofSysctlCpu = 0
            THEN {[m |-> x.m, cs |-> x.cs, asked |-> x.size.issued,
                   r |-> measure_cpu_ret(x.cs[1], 0, <<>>),
                   raw |-> [size |-> x.size, data |-> NotIssued(<<>>)]]}
            ELSE {[m |-> LazyMib(x.m, KERN_CP_TIMES, b), cs |-> x.cs, asked |-> TRUE,
                   r |-> measure_cpu_ret(x.cs[1], b.rc, b.v),
                   raw |-> [size |-> x.size, data |-> b]] :
                      b \in Answers(x.m, KERN_CP_TIMES,
                                    CpuSamples(x.cs[1] \div SizeofSysctlCpu, atLeast),
                                    <<>>)}
    IN  UNION {After(x) : x \in forced}

Range(n, k) == 1 .. (IF n < k THEN n ELSE k)

\* The closure with the operands of the subtraction exchanged.
cpu_load_closure_swapped(loads, measured) ==
    IF measured.kind /= "Ok" THEN measured
    ELSE Ok([k \in Range(Len(loads), Len(measured.val)) |->
                to_cpuload(CpuTime_sub(loads[k], measured.val[k]))])

\* The closure cpu_load() boxes: loads is the captured baseline, measured what
\* its own measure_cpu() returned.
cpu_load_closure(loads, measured) ==
    IF measured.kind /= "Ok" THEN measured
    ELSE Ok([k \in Range(Len(loads), Len(measured.val)) |->
                to_cpuload(CpuTime_sub(measured.val[k], loads[k]))])

\* DelayedMeasurement::done(&self) (data.rs) borrows the object: it stays as it
\* was and can be invoked again.
DelayedMeasurement_after_done(self) == self

cpu_load ==
    \E o \in MeasureOutcomes(mibs, cpSize, <<>>) :
        /\ Cache(o.m, IF o.asked THEN {KERN_CP_TIMES} ELSE {})
        /\ cpSize' = o.cs
        /\ IF o.r.kind = "Ok"
           THEN /\ dm' = <<o.r.val>>
                /\ invoked' = 0
                /\ ret' = Returned("cpu_load", Ok("DelayedMeasurement"), o.raw)
           ELSE /\ UNCHANGED <<dm, invoked>>
                /\ ret' = Returned("cpu_load", o.r, o.raw)
        /\ UNCHANGED threadVars

\* Invoking the DelayedMeasurement cpu_load() returned.
done ==
    /\ dm /= <<>>
    /\ invoked < MaxInvocations
    /\ \E o \in MeasureOutcomes(mibs, cpSize, dm[1]) :
        /\ Cache(o.m, IF o.asked THEN {KERN_CP_TIMES} ELSE {})
        /\ cpSize' = o.cs
        /\ ret' = Returned("done", cpu_load_closure(dm[1], o.r),
                           [baseline |-> dm[1], now |-> o.raw])
        /\ dm' = DelayedMeasurement_after_done(dm)
        /\ invoked' = invoked + 1
        /\ UNCHANGED threadVars

(***************************************************************************)
(* Concurrent callers.  Each static of the lazy_static block is guarded by *)
(* its own Once: the first thread to dereference it runs the initializer,  *)
(* threads arriving meanwhile wait, and all read the value once the Once   *)
(* is COMPLETE.  A call is followed through the statics it dereferences,   *)
(* each dereference followed by the sysctl query made with the handle.     *)
(***************************************************************************)
\* The statics a call dereferences, in the order it does.
StaticsOf(op) ==
    CASE op = "on_ac_power"  -> <<ACLINE>>
      [] op = "battery_life" -> <<BATTERY_LIFE, BATTERY_TIME>>
      [] op = "boot_time"    -> <<KERN_BOOTTIME>>

ThreadCalls == {"on_ac_power", "battery_life", "boot_time"}

\* The $shouldcheck of the query made with the handle of name n.
ShouldCheck(n) == IF n = V_CACHE_COUNT THEN cache_shouldcheck ELSE TRUE

\* The mutual exclusion of Once is missing: every thread that finds the static
\* not yet COMPLETE runs the initializer.
MayInitializeUnguarded(st) == st /= "COMPLETE"

\* Once::call_once: only the thread that finds the Once INCOMPLETE runs the
\* initializer.
MayInitialize(st) == st = "INCOMPLETE"

Call(t) ==
    /\ pc[t] = "idle"
    /\ \E op \in ThreadCalls : todo' = [todo EXCEPT ![t] = StaticsOf(op)]
    /\ pc' = [pc EXCEPT ![t] = "deref"]
    /\ UNCHANGED <<cacheVars, cpSize, dm, ret, invoked, seen>>

\* The dereference starts the initializer.
DerefInit(t) ==
    /\ pc[t] = "deref"
    /\ MayInitialize(once[Head(todo[t])])
    /\ once' = [once EXCEPT ![Head(todo[t])] = "RUNNING"]
    /\ pc' = [pc EXCEPT ![t] = "init"]
    /\ UNCHANGED <<mibs, resolves, unknown, queried, cpSize, dm, ret, invoked, todo, seen>>

\* The initializer: sysctl_mib! with the static's name; its value goes into
\* the static's cell.
InitResolve(t) ==
    /\ pc[t] = "init"
    /\ \E rc \in {0, -1} :
        LET n == Head(todo[t])
        IN  /\ mibs' = [mibs EXCEPT ![n] = sysctl_mib(rc)]
            /\ resolves' = [resolves EXCEPT ![n] = @ + 1]
            /\ unknown' = IF rc = 0 THEN unknown ELSE unknown \cup {n}
    /\ pc' = [pc EXCEPT ![t] = "publish"]
    /\ UNCHANGED <<once, queried, cpSize, dm, ret, invoked, todo, seen>>

\* The initializer has returned: the Once becomes COMPLETE.
InitPublish(t) ==
    /\ pc[t] = "publish"
    /\ once' = [once EXCEPT ![Head(todo[t])] = "COMPLETE"]
    /\ pc' = [pc EXCEPT ![t] = "deref"]
    /\ UNCHANGED <<mibs, resolves, unknown, queried, cpSize, dm, ret, invoked, todo, seen>>

\* The dereference finds the Once COMPLETE and reads the cell.
DerefRead(t) ==
    /\ pc[t] = "deref"
    /\ once[Head(todo[t])] = "COMPLETE"
    /\ seen' = [seen EXCEPT ![t] = mibs[Head(todo[t])]]
    /\ pc' = [pc EXCEPT ![t] = "query"]
    /\ UNCHANGED <<cacheVars, cpSize, dm, ret, invoked, todo>>

\* sysctl! with the handle read: the call returns early on a checked failure
\* and goes on to its next static otherwise.
Query(t) ==
    /\ pc[t] = "query"
    /\ \E rc \in IF seen[t] = OidMib THEN {0, -1} ELSE {-1} :
        LET rest == IF sysctl_returns_err(rc, ShouldCheck(Head(todo[t])))
                    THEN <<>> ELSE Tail(todo[t])
        IN  /\ todo' = [todo EXCEPT ![t] = rest]
            /\ pc' = [pc EXCEPT ![t] = IF rest = <<>> THEN "idle" ELSE "deref"]
    /\ queried' = queried \cup {Head(todo[t])}
    /\ UNCHANGED <<mibs, once, resolves, unknown, cpSize, dm, ret, invoked, seen>>

(***************************************************************************)
(* Specifications.  The handle cache is the only state the operations      *)
(* share, and each handle belongs to one telemetry category, so the        *)
(* categories do not read what the others write.  Next is the whole        *)
(* Platform; its state space is the product of the categories', and each   *)
(* category is explored on its own, every one together with the three      *)
(* unsupported operations.                                                 *)
(***************************************************************************)
NextUnsupported ==
    \/ block_device_statistics
    \/ network_stats
    \/ socket_stats

NextPower ==
    \/ on_ac_power
    \/ battery_life
    \/ boot_time
    \/ NextUnsupported

NextMemory ==
    \/ memory
    \/ NextUnsupported

NextMounts ==
    \/ mounts
    \/ mount_at
    \/ NextUnsupported

NextCpu ==
    \/ cpu_load
    \/ done
    \/ NextUnsupported

NextThreads ==
    \E t \in Threads :
        \/ Call(t)
        \/ DerefInit(t)
        \/ InitResolve(t)
        \/ InitPublish(t)
        \/ DerefRead(t)
        \/ Query(t)

Next ==
    \/ NextPower
    \/ NextMemory
    \/ NextMounts
    \/ NextCpu

Spec        == Init /\ [][Next]_vars
SpecPower   == Init /\ [][NextPower]_vars
SpecMemory  == Init /\ [][NextMemory]_vars
SpecMounts  == Init /\ [][NextMounts]_vars
SpecCpu     == Init /\ [][NextCpu]_vars
SpecThreads == Init /\ [][NextThreads]_vars

(***************************************************************************)
(* Properties.                                                             *)
(***************************************************************************)

\* C1: whatever was called before and whatever the kernel answered, a call of
\* block_device_statistics(), network_stats(interface) or socket_stats() returns
\* the error "Not supported", never a value.
C1_AlwaysUnsupported ==
    ret.op \in {"block_device_statistics", "network_stats", "socket_stats"}
        => ret.kind = "Err" /\ ret.val = NotSupported

\* network_stats("lo0") has returned after calls that resolved handles, one of a
\* name the kernel knows and one of a name it does not.
C1_Witness ==
    /\ ret.op = "network_stats"
    /\ ret.raw = "lo0"
    /\ mibs[ACLINE] = OidMib
    /\ mibs[BATTERY_LIFE] = ZeroMib
    /\ mibs[KERN_BOOTTIME] /= Unset

\* C2: under every interleaving of concurrent callers each counter name is
\* resolved at most once, a COMPLETE static holds a resolved handle, and the
\* handle a thread was given is the one the cache holds for as long as the
\* thread uses it.
C2_ResolvedOnce ==
    /\ \A n \in Names : resolves[n] <= 1
    /\ \A n \in Names : once[n] = "COMPLETE" => mibs[n] \in {OidMib, ZeroMib}
    /\ \A t \in Threads :
          pc[t] = "query" =>
              /\ seen[t] /= Unset
              /\ seen[t] = mibs[Head(todo[t])]

\* Both threads are about to query with the handle of the same name, which was
\* resolved once.
C2_Witness ==
    \E n \in Names :
        /\ resolves[n] = 1
        /\ \A t \in Threads : pc[t] = "query" /\ Head(todo[t]) = n

\* C3: when the kernel does not know a counter name, resolving it is fatal: the
\* call panics instead of returning, no handle is cached for the name and no
\* query is made with a handle for it.
C3_FatalResolve ==
    \A n \in unknown :
        /\ mibs[n] = Unset
        /\ n \notin queried
        /\ ret.kind = "Panic"

\* kib(pages << PAGESHIFT) in bytes.
PageBytes(pages) == pages * (2 ^ PAGESHIFT) * 1024

\* C4: memory() returns an error when the query of the active, inactive, wired
\* or free page counter fails; otherwise it returns a Memory, in which a failed
\* cache query leaves the cache component 0 and a failed ARC query leaves the
\* ARC component 0, and total and free are the sums over those components.
C4_RequiredAndOptional ==
    ret.op = "memory" =>
        LET r  == ret.raw
            requiredFailed ==
                \E x \in {r.active, r.inactive, r.wired, r.free} :
                    x.issued /\ x.rc /= 0
            pm == ret.val.platform_memory
        IN  /\ requiredFailed => ret.kind = "Err"
            /\ ~requiredFailed =>
                /\ ret.kind = "Ok"
                /\ pm.cache = (IF r.cache.rc /= 0 THEN 0 ELSE PageBytes(r.cache.v))
                /\ pm.zfs_arc = (IF r.arc.rc /= 0 THEN 0 ELSE r.arc.v)
                /\ r.arc.rc /= 0 => pm.wired = PageBytes(r.wired.v)
                /\ ret.val.total = pm.active + pm.inactive + pm.wired + pm.cache
                                   + pm.zfs_arc + pm.free
                /\ ret.val.free = pm.inactive + pm.cache + pm.zfs_arc + pm.free

\* memory() has returned a Memory although both optional queries failed.
C4_Witness ==
    /\ ret.op = "memory"
    /\ ret.kind = "Ok"
    /\ ret.raw.cache.rc /= 0
    /\ ret.raw.arc.rc /= 0
    /\ ret.val.platform_memory.cache = 0
    /\ ret.val.platform_memory.zfs_arc = 0
    /\ ret.val.total > 0

Decoded ==
    CASE ret.op = "mounts" /\ ret.kind = "Ok" ->
            {<<ret.raw.recs[k], ret.val[k]>> : k \in 1 .. ret.raw.len}
      [] ret.op = "mount_at" /\ ret.kind = "Ok" -> {<<ret.raw.rec, ret.val>>}
      [] OTHER -> {}

\* C6: for every record decoded by to_fs, files_total and files_avail are the
\* raw f_files and f_ffree as unsigned words, files is their difference when
\* files_avail <= files_total and 0 otherwise, and files never exceeds
\* files_total.
C6_FilesSaturate ==
    \A p \in Decoded :
        LET raw == p[1]
            fs  == p[2]
        IN  /\ fs.files_total = raw.f_files
            /\ fs.files_avail = (IF raw.f_ffree < 0 THEN raw.f_ffree + Modulus
                                 ELSE raw.f_ffree)
            /\ fs.files_avail <= fs.files_total =>
                   fs.files = fs.files_total - fs.files_avail
            /\ fs.files_avail > fs.files_total => fs.files = 0
            /\ fs.files <= fs.files_total

\* mounts() has decoded a record with a negative f_ffree, which saturates, and
\* a record with inodes in use.
C6_Witness ==
    /\ ret.op = "mounts"
    /\ \E p \in Decoded : p[1].f_ffree < 0 /\ p[1].f_files > 0 /\ p[2].files = 0
    /\ \E p \in Decoded : p[2].files > 0

\* C7: whenever battery_life() returns a value, its remaining_capacity lies
\* in [0, 1].
C7_CapacityInUnitInterval ==
    ret.op = "battery_life" /\ ret.kind = "Ok" =>
        /\ 0 <= ret.val.remaining_capacity.num
        /\ ret.val.remaining_capacity.num <= ret.val.remaining_capacity.den

\* C8: on_ac_power() returns an error exactly when the kernel query fails, and
\* otherwise true when the AC-line counter reads 1 and false for every other
\* reading.
C8_AcLine ==
    ret.op = "on_ac_power" =>
        /\ ret.kind = "Err" <=> ret.raw.rc /= 0
        /\ ret.raw.rc = 0 => ret.kind = "Ok" /\ ret.val = (ret.raw.v = 1)

\* on_ac_power() has returned false for a reading that is neither 0 nor 1.
C8_Witness ==
    /\ ret.op = "on_ac_power"
    /\ ret.kind = "Ok"
    /\ ret.raw.v = 2
    /\ ret.val = FALSE

\* C9: mounts() returns an error when getmntinfo() reports a count below 1, and
\* for a count n >= 1 the n Filesystem values decoded from the n records, in
\* their order.
C9_MountsCount ==
    ret.op = "mounts" =>
        /\ ret.raw.len < 1 => ret.kind = "Err"
        /\ ret.raw.len >= 1 =>
            /\ ret.kind = "Ok"
            /\ Len(ret.val) = ret.raw.len
            /\ \A k \in 1 .. ret.raw.len :
                /\ ret.val[k].files_total = as_usize(ret.raw.recs[k].f_files)
                /\ ret.val[k].files_avail = as_usize(ret.raw.recs[k].f_ffree)
                /\ ret.val[k] = to_fs(ret.raw.recs[k])

\* mounts() has returned two Filesystem values that differ.
C9_Witness ==
    /\ ret.op = "mounts"
    /\ ret.kind = "Ok"
    /\ ret.raw.len = 2
    /\ ret.val[1] /= ret.val[2]

\* C10: for a boot-time record of s seconds and u microseconds, boot_time()
\* reports the instant s seconds and u * 1000 nanoseconds after the epoch.
C10_BootInstant ==
    ret.op = "boot_time" /\ ret.kind = "Ok" =>
        ret.val = [secs |-> ret.raw.v.tv_sec, nsecs |-> ret.raw.v.tv_usec * 1000]

=============================================================================
